---- MODULE Spec2Model ----
(***************************************************************************)
(* Model of the fall-event ingestion function app (src/function_app.py):   *)
(* the score engine _calc_fall_score, the HTTP handler http_trigger with   *)
(* its validation order, and the raw-event writer _upload_to_blob, run by  *)
(* several concurrent invocations against one blob container.              *)
(*                                                                         *)
(* Numbers.  A Python float is modelled as a record [c, n]:                *)
(*   c = "fin"  a finite double, n its value in 1/100 (9.81 is 981);       *)
(*   c = "huge" a finite double whose square exceeds the largest double    *)
(*              (|x| > 1.34e154, for instance 1e200);                      *)
(*   c = "inf"  an infinity (json.loads reads 1e999 and Infinity as inf);  *)
(*   c = "nan"  a NaN (json.loads reads NaN; float("nan") gives one).      *)
(* Scores are kept exactly, in units of 1/6000: acc_score and gyro_score   *)
(* are in 1/600 and score = 0.7*acc + 0.3*gyro = (7*acc + 3*gyro)/6000.    *)
(* math.sqrt is rounded down to 1/100.                                     *)
(***************************************************************************)
EXTENDS Integers, Sequences, FiniteSets, TLC

(***************************************************************************)
(* Bounds of the model.                                                    *)
(***************************************************************************)
NumInvocations == 2
NumUUIDs == 3
MaxDay == 2

Invocations == 1..NumInvocations
UUIDs == 1..NumUUIDs
Days == 1..MaxDay

(***************************************************************************)
(* JSON values as json.loads returns them.  A key that is absent and a key *)
(* whose value is null both read as None through dict.get.                 *)
(***************************************************************************)
JNull == [t |-> "null", s |-> "", n |-> 0]
JStr(s) == [t |-> "str", s |-> s, n |-> 0]
JBool(b) == [t |-> "bool", s |-> "", n |-> IF b THEN 1 ELSE 0]
JNum(c, n) == [t |-> "num", s |-> c, n |-> n]
JBigInt == [t |-> "int", s |-> "big", n |-> 0]
JList == [t |-> "list", s |-> "", n |-> 0]

Fin(n) == [c |-> "fin", n |-> n]
Huge == [c |-> "huge", n |-> 0]
Inf == [c |-> "inf", n |-> 0]
NaN == [c |-> "nan", n |-> 0]

\* Mutant: the conversions run in another order.
SensorFields_reordered == <<"gz", "gy", "gx", "az", "ay", "ax">>

SensorFields == <<"ax", "ay", "az", "gx", "gy", "gz">>
FieldNames == {"ax", "ay", "az", "gx", "gy", "gz"}

(***************************************************************************)
(* Results of a call: a returned value or a raised exception.              *)
(***************************************************************************)
Return(v) == [raised |-> "", msg |-> "", val |-> v]
Raise(e, m) == [raised |-> e, msg |-> m, val |-> Fin(0)]

(***************************************************************************)
(* float(x), src/function_app.py:55.  Strings are parsed by Python's float *)
(* grammar; the table lists the strings the model's requests use.          *)
(***************************************************************************)
float(x) ==
    CASE x.t = "num" -> Return([c |-> x.s, n |-> x.n])
      [] x.t = "int" -> Raise("OverflowError", "int too large to convert to float")
      [] x.t = "bool" -> Return(Fin(100 * x.n))
      [] x.t = "str" ->
            CASE x.s = "1.5" -> Return(Fin(150))
              [] x.s = "nan" -> Return(NaN)
              [] OTHER -> Raise("ValueError", "could not convert string to float")
      [] OTHER -> Raise("TypeError", "float() argument must be a string or a real number")

\* Mutant: a value that does not convert counts as 0.0.
_to_float_defaulting(x, name) ==
    LET r == float(x)
    IN  IF r.raised = "" THEN r ELSE Return(Fin(0))

(***************************************************************************)
(* _to_float: any exception of float(x) becomes ValueError naming the      *)
(* field.                                                                  *)
(***************************************************************************)
_to_float(x, name) ==
    LET r == float(x)
    IN  IF r.raised = "" THEN r ELSE Raise("ValueError", name \o " must be a number")

(***************************************************************************)
(* Float arithmetic used by _calc_fall_score.                              *)
(***************************************************************************)
G_CENTI == 981
NORM == 600
ONE == 10 * NORM
THRESHOLD == 7 * NORM
ENABLE_LOCAL_KEY_GUARD == FALSE

\* x**2: Python raises OverflowError when the square of a finite double is
\* out of range; inf**2 is inf and nan**2 is nan.
Pow2(x) ==
    CASE x.c = "fin" -> Return(Fin(x.n * x.n))
      [] x.c = "huge" -> Raise("OverflowError", "(34, 'Numerical result out of range')")
      [] OTHER -> Return(x)

Add3(x, y, z) ==
    IF "nan" \in {x.c, y.c, z.c} THEN NaN
    ELSE IF "inf" \in {x.c, y.c, z.c} THEN Inf
    ELSE Fin(x.n + y.n + z.n)

RECURSIVE SqrtIter(_, _, _)
SqrtIter(n, lo, hi) ==
    IF lo >= hi THEN lo
    ELSE LET mid == (lo + hi + 1) \div 2
         IN  IF mid * mid <= n THEN SqrtIter(n, mid, hi) ELSE SqrtIter(n, lo, mid - 1)

\* math.sqrt: the root of a value in 1/10000, in 1/100, rounded down.
sqrt(x) == IF x.c = "fin" THEN Fin(SqrtIter(x.n, 0, IF x.n < 46340 THEN x.n ELSE 46340)) ELSE x

\* abs(a_mag - 9.81)
AbsDev(x) == IF x.c = "fin" THEN Fin(IF x.n >= G_CENTI THEN x.n - G_CENTI ELSE G_CENTI - x.n) ELSE x

\* min(1.0, x / 6.0) in 1/600: Python's min returns its first argument
\* unless the second compares smaller, so inf and nan both give 1.0.
MinOne(x) == IF x.c = "fin" /\ x.n < NORM THEN x.n ELSE NORM

\* max(0.0, min(1.0, score)) in 1/6000
Clamp(s) == IF s > ONE THEN ONE ELSE IF s < 0 THEN 0 ELSE s

FirstOf(S) == CHOOSE k \in S : \A j \in S : k <= j

(***************************************************************************)
(* _calc_fall_score(sensor): the six conversions in source order, the two  *)
(* magnitudes, the two normalised scores and the clamped weighted sum.     *)
(* The value returned is the score in 1/6000.                              *)
(***************************************************************************)
_calc_fall_score(sensor) ==
    LET conv == [k \in 1..6 |->
                    _to_float(sensor[SensorFields[k]], "sensor." \o SensorFields[k])]
        bad == {k \in 1..6 : conv[k].raised # ""}
        sq == [k \in 1..6 |-> Pow2(conv[k].val)]
        over == {k \in 1..6 : sq[k].raised # ""}
    IN  IF bad # {} THEN conv[FirstOf(bad)]
        ELSE IF over # {} THEN sq[FirstOf(over)]
        ELSE LET a_mag == sqrt(Add3(sq[1].val, sq[2].val, sq[3].val))
                 g_mag == sqrt(Add3(sq[4].val, sq[5].val, sq[6].val))
                 acc_score == MinOne(AbsDev(a_mag))
                 gyro_score == MinOne(g_mag)
                 score == 7 * acc_score + 3 * gyro_score
             IN  Return(Fin(Clamp(score)))

\* Mutant: the threshold is exclusive.
ServerIsFall_strict(fall_score) == fall_score > THRESHOLD

\* server_is_fall = fall_score >= THRESHOLD
ServerIsFall(fall_score) == fall_score >= THRESHOLD

\* round(fall_score, 4) in 1/10000 (a score in 1/6000 is never a tie)
Round4(fall_score) == (fall_score * 10000 + (ONE \div 2)) \div ONE

(***************************************************************************)
(* State.                                                                  *)
(*   BLOB_SERVICE_CLIENT, BLOB_CONTAINER_NAME: whether the process-wide    *)
(*     client and the container name exist (set once, at import);          *)
(*   utcnow: the server's UTC day; issued: the UUIDs uuid4 has returned;   *)
(*   store: the container, blob path -> [data, version];                   *)
(*   pc, body, blob_path, resp: each invocation's position, parsed request *)
(*     body, chosen blob path and outcome;                                 *)
(*   uploads: the upload_blob calls each invocation has made.              *)
(***************************************************************************)
VARIABLES BLOB_SERVICE_CLIENT, BLOB_CONTAINER_NAME, utcnow, issued, store,
          pc, body, blob_path, resp, uploads

http_vars == <<BLOB_SERVICE_CLIENT, BLOB_CONTAINER_NAME, utcnow, issued, store,
               pc, body, blob_path, resp, uploads>>

(***************************************************************************)
(* State of the two notification legs (spec.md 4.5 and 4.6).               *)
(*   WEBHOOK_URL: whether a notification target is configured;             *)
(*   q_state, q_body, q_deliveries, q_posts, q_outcome, q_acked, q_raised: *)
(*     each queue message's position, body, count of deliveries to the     *)
(*     consumer, count of webhook POSTs, last webhook outcome, whether it  *)
(*     was acknowledged, and whether its handler raised;                   *)
(*   n_now: the notifier's clock, in minutes; n_event, n_state, n_seen_at, *)
(*     n_posted, n_raised: the stored object of the store event, its       *)
(*     position, the time it was handled, the payload posted, and whether  *)
(*     its handler raised.                                                 *)
(***************************************************************************)
VARIABLES WEBHOOK_URL, q_state, q_body, q_deliveries, q_posts, q_outcome, q_acked,
          q_raised, n_now, n_event, n_state, n_seen_at, n_posted, n_raised

queue_vars == <<q_state, q_body, q_deliveries, q_posts, q_outcome, q_acked, q_raised>>
notifier_vars == <<n_now, n_event, n_state, n_seen_at, n_posted, n_raised>>
vars == <<http_vars, WEBHOOK_URL, queue_vars, notifier_vars>>

NoPath == [day |-> 0, id |-> 0]
NoSensor == [k \in FieldNames |-> JNull]

\* A request: whether its function key passes the guard, how get_json()
\* ends (k = "invalid_json": ValueError; "non_object": a list, a number, a
\* string or null; "object": a dict), and the three keys the handler reads.
Request(key_ok, k, timestamp, sensor_t, sensor, isFall) ==
    [key_ok |-> key_ok, k |-> k, timestamp |-> timestamp,
     sensor_t |-> sensor_t, sensor |-> sensor, isFall |-> isFall]

NoBody == Request(TRUE, "none", JNull, "null", NoSensor, JNull)

\* An outcome of http_trigger: an HttpResponse, or an exception that leaves
\* the handler.
NoResp ==
    [kind |-> "none", code |-> 0, status |-> "", message |-> "",
     fallScore |-> 0, isFall |-> FALSE, blobPath |-> NoPath]
Error(code, message) ==
    [kind |-> "http", code |-> code, status |-> "error", message |-> message,
     fallScore |-> 0, isFall |-> FALSE, blobPath |-> NoPath]
Unauthorized ==
    [kind |-> "http", code |-> 401, status |-> "", message |-> "Unauthorized",
     fallScore |-> 0, isFall |-> FALSE, blobPath |-> NoPath]
Escapes(exc) ==
    [kind |-> "exception", code |-> 0, status |-> "", message |-> exc,
     fallScore |-> 0, isFall |-> FALSE, blobPath |-> NoPath]
Ok(fall_score, path) ==
    [kind |-> "http", code |-> 200, status |-> "ok", message |-> "",
     fallScore |-> Round4(fall_score), isFall |-> ServerIsFall(fall_score),
     blobPath |-> path]
Continue ==
    [kind |-> "continue", code |-> 0, status |-> "", message |-> "",
     fallScore |-> 0, isFall |-> FALSE, blobPath |-> NoPath]

(***************************************************************************)
(* http_trigger up to the call of _upload_to_blob (lines 159-224): the key *)
(* guard, get_json, the three isinstance checks in source order, and the   *)
(* score, whose ValueError alone is caught.  Continue: every check passed. *)
(***************************************************************************)
Validate(b) ==
    IF ENABLE_LOCAL_KEY_GUARD /\ ~b.key_ok THEN Unauthorized
    ELSE IF b.k = "invalid_json" THEN Error(400, "Invalid JSON")
    ELSE IF b.k # "object" THEN Escapes("AttributeError")
    ELSE IF b.timestamp.t # "str" THEN Error(400, "'timestamp' must be an ISO8601 string")
    ELSE IF b.sensor_t # "obj" THEN Error(400, "'sensor' must be an object")
    ELSE IF b.isFall.t # "bool" THEN Error(400, "'isFall' must be a boolean")
    ELSE LET r == _calc_fall_score(b.sensor)
         IN  IF r.raised = "ValueError" THEN Error(400, r.msg)
             ELSE IF r.raised # "" THEN Escapes(r.raised)
             ELSE Continue

FallScore(b) == _calc_fall_score(b.sensor).val.n

(***************************************************************************)
(* _upload_to_blob, lines 116-119: the configuration checks.               *)
(***************************************************************************)
ConfigError ==
    IF ~BLOB_SERVICE_CLIENT THEN "BLOB_CONNECTION_STRING is missing or invalid."
    ELSE IF ~BLOB_CONTAINER_NAME THEN "BLOB_CONTAINER_NAME is missing."
    ELSE ""

\* Mutant: the identifier may repeat an earlier one.
uuid4_reused == UUIDs

\* uuid.uuid4(): 122 random bits, taken as its contract is: a value no
\* earlier call has returned.
uuid4 == UUIDs \ issued

\* blob_path = f"fall-detection/{now:%Y/%m/%d}/{uuid.uuid4()}.json"
BlobPath(now, u) == [day |-> now, id |-> u]

\* blob_client.upload_blob(data, overwrite=True) when the service accepts
\* it: the blob at the path is created or replaced.
upload_blob(st, path, data, version) == (path :> [data |-> data, version |-> version]) @@ st

\* Mutant: the exception of upload_blob is swallowed.
UploadResponse_swallowed(b, path, uploaded) == Ok(FallScore(b), path)

\* http_trigger after upload_blob returned or raised (lines 231-262).
UploadResponse(b, path, uploaded) ==
    IF uploaded THEN Ok(FallScore(b), path)
    ELSE Error(500, "Blob upload failed: storage error")

(***************************************************************************)
(* Requests.                                                               *)
(***************************************************************************)
ISO_TIMESTAMP == "2025-12-16T15:42:30.123Z"
NOT_A_DATE == "yesterday"

Sensor(ax, ay, az, gx, gy, gz) ==
    [k \in FieldNames |->
        CASE k = "ax" -> ax [] k = "ay" -> ay [] k = "az" -> az
          [] k = "gx" -> gx [] k = "gy" -> gy [] k = "gz" -> gz]

Num(n) == JNum("fin", n)
RestingSensor == Sensor(Num(0), Num(0), Num(G_CENTI), Num(0), Num(0), Num(0))
ZeroSensor == Sensor(Num(0), Num(0), Num(0), Num(0), Num(0), Num(0))

\* The requests of the concurrent specification.
Requests ==
    { Request(TRUE, "object", JStr(ISO_TIMESTAMP), "obj", RestingSensor, JBool(TRUE)),
      Request(TRUE, "object", JStr(ISO_TIMESTAMP), "obj", ZeroSensor, JBool(FALSE)),
      Request(FALSE, "object", JStr(ISO_TIMESTAMP), "obj", ZeroSensor, JStr("false")),
      Request(TRUE, "non_object", JNull, "null", NoSensor, JNull) }

\* The requests of the sequential specification: every combination of the
\* values below, with the bodies that are not JSON objects.
TimestampValues == {JStr(ISO_TIMESTAMP), JStr(NOT_A_DATE), Num(1734363750), JNull}
IsFallValues == {JBool(TRUE), JBool(FALSE), JStr("true")}
AxValues == {Num(0), JNum("huge", 0), JNull}
AyValues == {Num(0), JNum("inf", 0), JStr("abc")}
AzValues == {Num(0), Num(G_CENTI), JNum("nan", 0), JStr("1.5")}
GxValues == {Num(0), Num(NORM), JBool(TRUE)}
GyValues == {Num(0), JBigInt, JList}
GzValues == {Num(0), JStr("nan")}

Sensors ==
    { Sensor(ax, ay, az, gx, gy, gz) :
        ax \in AxValues, ay \in AyValues, az \in AzValues,
        gx \in GxValues, gy \in GyValues, gz \in GzValues }

AllRequests ==
    { Request(TRUE, "object", ts, "obj", sn, f) :
        ts \in TimestampValues, sn \in Sensors, f \in IsFallValues }
    \cup { Request(TRUE, "object", ts, "str", NoSensor, f) :
        ts \in TimestampValues, f \in IsFallValues }
    \cup { Request(TRUE, k, JNull, "null", NoSensor, JNull) :
        k \in {"invalid_json", "non_object"} }

(***************************************************************************)
(* Actions.                                                                *)
(***************************************************************************)
HttpInit ==
    /\ BLOB_SERVICE_CLIENT \in BOOLEAN
    /\ BLOB_CONTAINER_NAME \in BOOLEAN
    /\ utcnow = 1
    /\ issued = {}
    /\ store = << >>
    /\ pc = [i \in Invocations |-> "idle"]
    /\ body = [i \in Invocations |-> NoBody]
    /\ blob_path = [i \in Invocations |-> NoPath]
    /\ resp = [i \in Invocations |-> NoResp]
    /\ uploads = [i \in Invocations |-> 0]

\* The invocation ends with outcome r.
Finish(i, r) ==
    /\ pc' = [pc EXCEPT ![i] = "done"]
    /\ resp' = [resp EXCEPT ![i] = r]

\* http_trigger on a request of reqs, from its entry to the point where
\* _upload_to_blob is about to call upload_blob (lines 159-127).
HttpTrigger(i, reqs) ==
    /\ pc[i] = "idle"
    /\ \E b \in reqs :
        /\ body' = [body EXCEPT ![i] = b]
        /\ LET v == Validate(b)
           IN  IF v.kind # "continue"
               THEN Finish(i, v) /\ UNCHANGED <<blob_path, issued>>
               ELSE IF ConfigError # ""
               THEN /\ Finish(i, Error(500, "Blob upload failed: " \o ConfigError))
                    /\ UNCHANGED <<blob_path, issued>>
               ELSE \E u \in uuid4 :
                    /\ blob_path' = [blob_path EXCEPT ![i] = BlobPath(utcnow, u)]
                    /\ issued' = issued \cup {u}
                    /\ pc' = [pc EXCEPT ![i] = "upload"]
                    /\ UNCHANGED resp
    /\ UNCHANGED <<BLOB_SERVICE_CLIENT, BLOB_CONTAINER_NAME, utcnow, store, uploads>>
    /\ UNCHANGED <<WEBHOOK_URL, queue_vars, notifier_vars>>

\* upload_blob returns or raises, and http_trigger answers (lines 131-262).
UploadBlob(i) ==
    /\ pc[i] = "upload"
    /\ \E uploaded \in BOOLEAN :
        /\ store' = IF uploaded THEN upload_blob(store, blob_path[i], body[i], i) ELSE store
        /\ Finish(i, UploadResponse(body[i], blob_path[i], uploaded))
    /\ uploads' = [uploads EXCEPT ![i] = @ + 1]
    /\ UNCHANGED <<BLOB_SERVICE_CLIENT, BLOB_CONTAINER_NAME, utcnow, issued, body, blob_path>>
    /\ UNCHANGED <<WEBHOOK_URL, queue_vars, notifier_vars>>

\* The server's date moves to the next day.
Tick ==
    /\ utcnow < MaxDay
    /\ utcnow' = utcnow + 1
    /\ UNCHANGED <<BLOB_SERVICE_CLIENT, BLOB_CONTAINER_NAME, issued, store,
                   pc, body, blob_path, resp, uploads>>
    /\ UNCHANGED <<WEBHOOK_URL, queue_vars, notifier_vars>>

(***************************************************************************)
(* Queue consumer / notifier (spec.md 4.5).  The queue holds a message     *)
(* invisible while its handler runs and removes it when the handler        *)
(* returns; a handler that raises makes the message visible again, up to   *)
(* MaxDequeueCount deliveries.                                             *)
(***************************************************************************)
NumMessages == 2
MaxDequeueCount == 3
Messages == 1..NumMessages
WebhookOutcomes == {"2xx", "non2xx", "network_error", "timeout"}

QueueInit ==
    /\ q_state = [m \in Messages |-> "none"]
    /\ q_body = [m \in Messages |-> "none"]
    /\ q_deliveries = [m \in Messages |-> 0]
    /\ q_posts = [m \in Messages |-> 0]
    /\ q_outcome = [m \in Messages |-> ""]
    /\ q_acked = [m \in Messages |-> FALSE]
    /\ q_raised = [m \in Messages |-> FALSE]

\* Mutant: a failed forward is raised to the queue runtime.
HandlerExit_raising(state) == IF state = "ForwardFailed" THEN "raise" ELSE "return"

\* How message handling ends in each terminal state: it always returns.
HandlerExit(state) == "return"

\* The state after parsing the message body as JSON.
ParseResult(msg_body) == IF msg_body = "json" THEN "Parsed" ELSE "ParseFailed"

\* The state after the POST to the webhook ended with outcome o.
ForwardResult(o) == IF o = "2xx" THEN "Forwarded" ELSE "ForwardFailed"

\* The producer puts a message on the queue.
Enqueue(m) ==
    /\ q_state[m] = "none"
    /\ \E b \in {"json", "garbage"} : q_body' = [q_body EXCEPT ![m] = b]
    /\ q_state' = [q_state EXCEPT ![m] = "queued"]
    /\ UNCHANGED <<q_deliveries, q_posts, q_outcome, q_acked, q_raised>>
    /\ UNCHANGED <<http_vars, WEBHOOK_URL, notifier_vars>>

\* The runtime hands a visible message to the consumer.
Receive(m) ==
    /\ q_state[m] = "queued"
    /\ q_state' = [q_state EXCEPT ![m] = "Received"]
    /\ q_deliveries' = [q_deliveries EXCEPT ![m] = @ + 1]
    /\ UNCHANGED <<q_body, q_posts, q_outcome, q_acked, q_raised>>
    /\ UNCHANGED <<http_vars, WEBHOOK_URL, notifier_vars>>

Parse(m) ==
    /\ q_state[m] = "Received"
    /\ q_state' = [q_state EXCEPT ![m] = ParseResult(q_body[m])]
    /\ UNCHANGED <<q_body, q_deliveries, q_posts, q_outcome, q_acked, q_raised>>
    /\ UNCHANGED <<http_vars, WEBHOOK_URL, notifier_vars>>

\* The POST of the AlertMessage, bounded by its timeout; with no target
\* configured nothing is sent.
Forward(m) ==
    /\ q_state[m] = "Parsed"
    /\ IF ~WEBHOOK_URL
       THEN /\ q_state' = [q_state EXCEPT ![m] = "Unconfigured"]
            /\ UNCHANGED <<q_posts, q_outcome>>
       ELSE \E o \in WebhookOutcomes :
            /\ q_state' = [q_state EXCEPT ![m] = ForwardResult(o)]
            /\ q_posts' = [q_posts EXCEPT ![m] = @ + 1]
            /\ q_outcome' = [q_outcome EXCEPT ![m] = o]
    /\ UNCHANGED <<q_body, q_deliveries, q_acked, q_raised>>
    /\ UNCHANGED <<http_vars, WEBHOOK_URL, notifier_vars>>

\* Message handling ends; the runtime removes the message when the handler
\* returned, and makes it visible again (or moves it to the poison queue at
\* MaxDequeueCount) when it raised.
Complete(m) ==
    /\ q_state[m] \in {"ParseFailed", "Forwarded", "ForwardFailed", "Unconfigured"}
    /\ IF HandlerExit(q_state[m]) = "return"
       THEN /\ q_state' = [q_state EXCEPT ![m] =
                              IF q_state[m] = "Forwarded" THEN "Completed" ELSE "Dropped"]
            /\ q_acked' = [q_acked EXCEPT ![m] = TRUE]
            /\ UNCHANGED q_raised
       ELSE /\ q_state' = [q_state EXCEPT ![m] =
                              IF q_deliveries[m] < MaxDequeueCount THEN "queued" ELSE "Poison"]
            /\ q_raised' = [q_raised EXCEPT ![m] = TRUE]
            /\ UNCHANGED q_acked
    /\ UNCHANGED <<q_body, q_deliveries, q_posts, q_outcome>>
    /\ UNCHANGED <<http_vars, WEBHOOK_URL, notifier_vars>>

(***************************************************************************)
(* Store-trigger notifier (spec.md 4.6): parse the new object, drop it     *)
(* when its declared timestamp is older than now - 15 minutes, otherwise   *)
(* POST the whole payload; the invocation never fails.                     *)
(***************************************************************************)
STALE_MINUTES == 15
MaxMinute == 25
Minutes == 0..MaxMinute
NoEvent == [json |-> FALSE, timestamp |-> 0, payload |-> "none"]
NoPayload == [timestamp |-> 0 - 1, payload |-> "none"]

NotifierInit ==
    /\ n_now = 0
    /\ n_event = NoEvent
    /\ n_state = "none"
    /\ n_seen_at = 0
    /\ n_posted = NoPayload
    /\ n_raised = FALSE

\* Mutant: the filter lets every event through.
IsStale_never(timestamp, now) == FALSE

\* The staleness filter: older than now - 15 minutes.
IsStale(timestamp, now) == timestamp < now - STALE_MINUTES

\* What the notifier does with a stored object at time now.
NotifierDecision(ev, now) ==
    IF ~ev.json THEN "dropped_unparsable"
    ELSE IF IsStale(ev.timestamp, now) THEN "dropped_stale"
    ELSE IF ~WEBHOOK_URL THEN "skipped_unconfigured"
    ELSE "forwarded"

\* A new object appears under the raw-event prefix.
BlobCreated ==
    /\ n_state = "none"
    /\ \E j \in BOOLEAN, t \in Minutes, pl \in {"auto_reported", "manual"} :
          n_event' = [json |-> j, timestamp |-> t, payload |-> pl]
    /\ n_state' = "pending"
    /\ UNCHANGED <<n_now, n_seen_at, n_posted, n_raised>>
    /\ UNCHANGED <<http_vars, WEBHOOK_URL, queue_vars>>

\* The notifier handles the object: one invocation; a forwarded payload is
\* POSTed once and the webhook's outcome o does not change how it ends.
BlobTrigger ==
    /\ n_state = "pending"
    /\ LET d == NotifierDecision(n_event, n_now)
       IN  /\ n_state' = d
           /\ IF d = "forwarded"
              THEN \E o \in WebhookOutcomes :
                   /\ n_posted' = [timestamp |-> n_event.timestamp,
                                   payload |-> n_event.payload]
                   /\ n_raised' = (HandlerExit(ForwardResult(o)) = "raise")
              ELSE /\ n_posted' = NoPayload
                   /\ n_raised' = FALSE
    /\ n_seen_at' = n_now
    /\ UNCHANGED <<n_now, n_event>>
    /\ UNCHANGED <<http_vars, WEBHOOK_URL, queue_vars>>

\* A minute passes.
Minute ==
    /\ n_now < MaxMinute
    /\ n_now' = n_now + 1
    /\ UNCHANGED <<n_event, n_state, n_seen_at, n_posted, n_raised>>
    /\ UNCHANGED <<http_vars, WEBHOOK_URL, queue_vars>>

Init == HttpInit /\ WEBHOOK_URL \in BOOLEAN /\ QueueInit /\ NotifierInit

Next ==
    \/ \E i \in Invocations : HttpTrigger(i, Requests)
    \/ \E i \in Invocations : UploadBlob(i)
    \/ Tick

\* Concurrent invocations of http_trigger.
Spec == Init /\ [][Next]_vars

SeqNext ==
    \/ HttpTrigger(1, AllRequests)
    \/ UploadBlob(1)
    \/ Tick

\* One invocation of http_trigger, on every request of AllRequests.
SeqSpec == Init /\ [][SeqNext]_vars

(***************************************************************************)
(* Properties of http_trigger.                                             *)
(***************************************************************************)
Done(i) == pc[i] = "done"
Answered(i, code) == Done(i) /\ resp[i].kind = "http" /\ resp[i].code = code
WroteOwnBlob(i) ==
    /\ blob_path[i] \in DOMAIN store
    /\ store[blob_path[i]] = [data |-> body[i], version |-> i]

\* C1: a 200 "ok" is returned only when upload_blob succeeded in the same
\* invocation and blobPath is the path written; when the write fails (the
\* upload raises, or the connection string or container name is absent) the
\* response is 500 "error" and no exception leaves the handler.
C1_OkOnlyAfterWrite ==
    \A i \in Invocations :
        /\ Answered(i, 200) =>
              /\ resp[i].status = "ok"
              /\ uploads[i] = 1
              /\ resp[i].blobPath = blob_path[i]
              /\ WroteOwnBlob(i)
        /\ (Done(i) /\ Validate(body[i]).kind = "continue" /\ ~WroteOwnBlob(i)) =>
              /\ Answered(i, 500)
              /\ resp[i].status = "error"

C1_Witness ==
    \E i, j \in Invocations :
        /\ Answered(i, 200) /\ WroteOwnBlob(i)
        /\ Answered(j, 500) /\ uploads[j] = 1

\* Coercible(v): float(v) returns.
Coercible(v) == float(v).raised = ""

FailsValidation(b) ==
    /\ b.k = "object"
    /\ \/ b.timestamp.t # "str"
       \/ b.sensor_t # "obj"
       \/ b.isFall.t # "bool"
       \/ \E f \in FieldNames : ~Coercible(b.sensor[f])

\* C2: a request that fails validation (timestamp not a string, sensor not
\* an object, isFall not a boolean, a sensor field not coercible to a number)
\* is answered 400, and the invocation calls upload_blob never and writes no
\* blob.
C2_InvalidNotStored ==
    \A i \in Invocations :
        (Done(i) /\ FailsValidation(body[i])) =>
            /\ Answered(i, 400)
            /\ uploads[i] = 0
            /\ blob_path[i] = NoPath
            /\ \A p \in DOMAIN store : store[p].version # i

C2_Witness ==
    /\ Answered(1, 400)
    /\ body[1].timestamp.t = "str" /\ body[1].sensor_t = "obj" /\ body[1].isFall.t = "bool"
    /\ ~Coercible(body[1].sensor["gy"])
    /\ uploads[1] = 0 /\ store = << >>

\* C3: two invocations that both succeed, also on identical bodies, wrote
\* two different paths, and the store holds the record of each.
C3_DistinctRecords ==
    \A i, j \in Invocations :
        (i # j /\ Answered(i, 200) /\ Answered(j, 200)) =>
            /\ resp[i].blobPath # resp[j].blobPath
            /\ {resp[i].blobPath, resp[j].blobPath} \subseteq DOMAIN store
            /\ store[resp[i].blobPath] = [data |-> body[i], version |-> i]
            /\ store[resp[j].blobPath] = [data |-> body[j], version |-> j]

C3_Witness ==
    \E i, j \in Invocations :
        /\ i # j /\ Answered(i, 200) /\ Answered(j, 200)
        /\ body[i] = body[j]
        /\ blob_path[i].day = blob_path[j].day
        /\ Cardinality(DOMAIN store) >= 2

AllNumbers(b) ==
    b.k = "object" /\ b.sensor_t = "obj" /\ \A f \in FieldNames : b.sensor[f].t = "num"

\* C5: for every sensor vector of six numbers _calc_fall_score returns a
\* score in [0, 1]; it does not raise, however large the magnitudes.
C5_ScoreInRange ==
    \A i \in Invocations :
        (pc[i] # "idle" /\ AllNumbers(body[i])) =>
            LET r == _calc_fall_score(body[i].sensor)
            IN  r.raised = "" /\ r.val.n >= 0 /\ r.val.n <= ONE

\* C6: the server decision is score >= 0.7, inclusive: the resting vector
\* scores 0.0 and is no fall, the all-zero vector scores exactly 0.7 and is a
\* fall, and isFall of the 200 response is that decision, whatever the
\* client's isFall.
C6_InclusiveThreshold ==
    \A i \in Invocations :
        Answered(i, 200) =>
            /\ resp[i].isFall = (10 * FallScore(body[i]) >= 7 * ONE)
            /\ body[i].sensor = RestingSensor => (resp[i].fallScore = 0 /\ ~resp[i].isFall)
            /\ body[i].sensor = ZeroSensor =>
                  (10 * FallScore(body[i]) = 7 * ONE /\ resp[i].fallScore = 7000 /\ resp[i].isFall)

C6_Witness ==
    \E i \in Invocations :
        /\ Answered(i, 200)
        /\ body[i].sensor = ZeroSensor
        /\ body[i].isFall = JBool(FALSE)
        /\ resp[i].isFall

ParseableISO8601(s) == s = ISO_TIMESTAMP

\* The timestamp is the only thing a validator could object to.
OtherwiseValid(b) ==
    /\ b.k = "object" /\ b.sensor_t = "obj" /\ b.isFall.t = "bool"
    /\ _calc_fall_score(b.sensor).raised = ""

\* C7: a request whose timestamp is a string that does not parse as
\* ISO-8601 is answered 400 naming timestamp, and is not scored or stored
\* (stated for a request with no other defect, the store being configured).
C7_TimestampParsed ==
    \A i \in Invocations :
        (Done(i) /\ OtherwiseValid(body[i]) /\ ConfigError = ""
                 /\ body[i].timestamp.t = "str"
                 /\ ~ParseableISO8601(body[i].timestamp.s)) =>
            /\ Answered(i, 400)
            /\ resp[i].message = "'timestamp' must be an ISO8601 string"
            /\ uploads[i] = 0

Malformed(b) == b.k \in {"invalid_json", "non_object"} \/ FailsValidation(b)

\* C8: every invocation ends in one of the responses 200, 400, 401, 500, and
\* a malformed request (not JSON, JSON that is no object, missing or
\* wrong-typed fields) in a 400 "error" with a message.
C8_AlwaysAResponse ==
    \A i \in Invocations :
        Done(i) =>
            /\ resp[i].kind = "http"
            /\ resp[i].code \in {200, 400, 401, 500}
            /\ Malformed(body[i]) =>
                  (resp[i].code = 400 /\ resp[i].status = "error" /\ resp[i].message # "")

FirstFailingCheck(b) ==
    IF b.timestamp.t # "str" THEN "'timestamp' must be an ISO8601 string"
    ELSE IF b.sensor_t # "obj" THEN "'sensor' must be an object"
    ELSE IF b.isFall.t # "bool" THEN "'isFall' must be a boolean"
    ELSE IF ~Coercible(b.sensor["ax"]) THEN "sensor.ax must be a number"
    ELSE IF ~Coercible(b.sensor["ay"]) THEN "sensor.ay must be a number"
    ELSE IF ~Coercible(b.sensor["az"]) THEN "sensor.az must be a number"
    ELSE IF ~Coercible(b.sensor["gx"]) THEN "sensor.gx must be a number"
    ELSE IF ~Coercible(b.sensor["gy"]) THEN "sensor.gy must be a number"
    ELSE IF ~Coercible(b.sensor["gz"]) THEN "sensor.gz must be a number"
    ELSE ""

\* C9: the 400 names the offending field, the first failing check in the
\* order timestamp, sensor, isFall, sensor.ax, ay, az, gx, gy, gz.
C9_FirstFailingField ==
    \A i \in Invocations :
        (Done(i) /\ body[i].k = "object" /\ FirstFailingCheck(body[i]) # "") =>
            /\ Answered(i, 400)
            /\ resp[i].message = FirstFailingCheck(body[i])

C9_Witness ==
    /\ Answered(1, 400)
    /\ resp[1].message = "sensor.ax must be a number"
    /\ body[1].sensor["ax"] = JNull
    /\ ~Coercible(body[1].sensor["ay"])
    /\ ~Coercible(body[1].sensor["gy"])

QueueNext ==
    \/ \E m \in Messages : Enqueue(m)
    \/ \E m \in Messages : Receive(m)
    \/ \E m \in Messages : Parse(m)
    \/ \E m \in Messages : Forward(m)
    \/ \E m \in Messages : Complete(m)

\* The queue consumer; a handler that started runs to its end (the POST has
\* a bounded timeout) and the runtime then settles the message.
QueueSpec ==
    /\ Init
    /\ [][QueueNext]_vars
    /\ \A m \in Messages : WF_vars(Parse(m)) /\ WF_vars(Forward(m)) /\ WF_vars(Complete(m))

NotifierNext ==
    \/ BlobCreated
    \/ BlobTrigger
    \/ Minute

\* The store-trigger notifier.
NotifierSpec == Init /\ [][NotifierNext]_vars

(***************************************************************************)
(* Properties of the notification legs.                                    *)
(***************************************************************************)
C4_Consumed ==
    \A m \in Messages :
        /\ q_deliveries[m] <= 1
        /\ ~q_raised[m]
        /\ q_state[m] # "Poison"
        /\ q_posts[m] <= 1
        /\ q_body[m] = "garbage" => q_posts[m] = 0
        /\ q_state[m] \in {"Completed", "Dropped"} => q_acked[m]

C4_NeverReappears ==
    [][\A m \in Messages :
          q_acked[m] => /\ q_acked'[m]
                        /\ q_state'[m] = q_state[m]
                        /\ q_deliveries'[m] = q_deliveries[m]
                        /\ q_posts'[m] = q_posts[m]]_vars

C4_EventuallyAcked == \A m \in Messages : (q_state[m] = "Received") ~> q_acked[m]

\* C4: the queue consumer acknowledges every message it receives in every
\* terminal state: a message is delivered once, its handler never raises,
\* an unparsable body is not forwarded, a failed POST is not repeated, an
\* acknowledged message never reappears, and a received message is
\* eventually acknowledged.
C4_AlwaysAcknowledged == []C4_Consumed /\ C4_NeverReappears /\ C4_EventuallyAcked

C4_Witness ==
    \E m, k \in Messages :
        /\ q_acked[m] /\ q_state[m] = "Dropped" /\ q_outcome[m] = "non2xx" /\ q_posts[m] = 1
        /\ q_acked[k] /\ q_state[k] = "Dropped" /\ q_body[k] = "garbage"

\* C10: an event whose declared timestamp is more than 15 minutes before
\* the time of handling is dropped with no webhook call, an event within the
\* window has its whole payload POSTed (given a configured webhook), and in
\* neither case does the invocation fail.
C10_StalenessFilter ==
    (n_state \notin {"none", "pending"} /\ n_event.json) =>
        /\ ~n_raised
        /\ n_seen_at - n_event.timestamp > 15 =>
              (n_state = "dropped_stale" /\ n_posted = NoPayload)
        /\ (n_seen_at - n_event.timestamp <= 15 /\ WEBHOOK_URL) =>
              /\ n_state = "forwarded"
              /\ n_posted = [timestamp |-> n_event.timestamp, payload |-> n_event.payload]

C10_Witness ==
    /\ n_state = "dropped_stale"
    /\ n_seen_at - n_event.timestamp = 20
    /\ n_posted = NoPayload
    /\ WEBHOOK_URL

====
